---- MODULE Spec2Model ----
(***************************************************************************)
(* Todd-Coxeter coset enumeration (toddcox.py): the coset table, the       *)
(* relation rows, the solve loop and the coxeter / schlafli presentation   *)
(* builders, as a state machine over one call.                             *)
(*                                                                         *)
(* Cosets and generator indices are 0-based as in the source; relators are *)
(* TLA+ sequences, so the source's rel[k] is rel[k + 1] here.              *)
(***************************************************************************)
EXTENDS Integers, Sequences, FiniteSets, TLC

VARIABLES
    call,       \* the call under study: [fn, gens, subgens, rels, coeffs]
    pc,         \* position in the call chain schlafli -> coxeter -> solve
    err,        \* the exception that ended the call, "" when none
    gens,       \* argument gens of the running function
    subgens,    \* argument subgens of the running function
    rels,       \* argument rels of the running function (words of symbols)
    irels,      \* solve's rels after the index mapping of line 136
    isubgens,   \* solve's subgens after the index mapping of line 137
    cosets,     \* Cosets.cosets: coset -> generator -> target or None
    rcosets,    \* Cosets.rcosets: target -> generator -> coset or None
    rows,       \* solve's list of pending rows
    learned,    \* solve's flag of the running pass
    i,          \* solve's scan index in the running pass
    todo,       \* positions of rows not yet scanned (permuted scan only)
    sg,         \* number of subgroup generators already initialised
    hist,       \* history of the run, read by no step: see NoHistory
    later,      \* the calls to run once the call under study has returned
    results     \* the calls that have returned, each with its table

vars == <<call, pc, err, gens, subgens, rels, irels, isubgens,
          cosets, rcosets, rows, learned, i, todo, sg, hist, later, results>>

----------------------------------------------------------------------------
(* Bounds of the model *)

\* total number of letters of the relators of a solve call drawn in Init
MaxLetters == 5

\* the enumeration is cut once the table holds this many cosets
MaxCosets == 7

\* Schlafli coefficients of the calls drawn in Init range over 2..MaxCoeff
MaxCoeff == 5

\* number of relators given to a coxeter call drawn in Init
MaxCoxRels == 2

\* the enumeration of a schlafli presentation of a finite group, studied for
\* its writes, is cut once the table holds this many cosets:
\* schlafli('abc', '', (3, 5)) returns 120
MaxCoxeterCosets == 121

----------------------------------------------------------------------------
(* Python values *)

None == -1

Range(s) == {s[k] : k \in 1..Len(s)}

\* s * n for a sequence s
RECURSIVE Repeat(_, _)
Repeat(s, n) == IF n <= 0 THEN <<>> ELSE s \o Repeat(s, n - 1)

\* list.index: the 0-based position of the first x, defined when x occurs
Index(s, x) == (CHOOSE k \in 1..Len(s) :
                    s[k] = x /\ \A j \in 1..(k - 1) : s[j] # x) - 1

HasIndex(s, x) == \E k \in 1..Len(s) : s[k] = x

----------------------------------------------------------------------------
(* class Cosets; a table is the record [f |-> cosets, r |-> rcosets] *)

EmptyRow(n) == [g \in 0..(n - 1) |-> None]

len(t) == Cardinality(DOMAIN t.f)

n_gens(t) == Cardinality(DOMAIN t.f[0])

get(t, coset, gen) == t.f[coset][gen]

rget(t, gen, target) == t.r[target][gen]

set(t, coset, gen, target) ==
    [f |-> [t.f EXCEPT ![coset][gen] = target],
     r |-> [t.r EXCEPT ![target][gen] = coset]]

add_row(t, n) ==
    LET k == Cardinality(DOMAIN t.f)
    IN  [f |-> [c \in 0..k |-> IF c < k THEN t.f[c] ELSE EmptyRow(n)],
         r |-> [c \in 0..k |-> IF c < k THEN t.r[c] ELSE EmptyRow(n)]]

\* Cosets.__init__
NewCosets(n) == add_row([f |-> <<>>, r |-> <<>>], n)

\* the (coset, gen) pairs whose forward entry is None
Undefined(t) ==
    {p \in (DOMAIN t.f) \X (0..(n_gens(t) - 1)) : t.f[p[1]][p[2]] = None}

\* the first of them in the order of the two nested loops of add_coset
FirstUndefined(t) ==
    CHOOSE p \in Undefined(t) :
        \A q \in Undefined(t) :
            p[1] < q[1] \/ (p[1] = q[1] /\ p[2] <= q[2])

\* add_coset with its return False inside the outer loop: only the row of
\* coset 0 is scanned
add_coset_first_row(t) ==
    IF \A p \in Undefined(t) : p[1] # 0
    THEN [ok |-> FALSE, t |-> t]
    ELSE LET p == FirstUndefined(t)
         IN  [ok |-> TRUE,
              t  |-> set(add_row(t, n_gens(t)), p[1], p[2], len(t))]

\* add_coset taking the last undefined entry of the scan, not the first
add_coset_last(t) ==
    IF Undefined(t) = {}
    THEN [ok |-> FALSE, t |-> t]
    ELSE LET p == CHOOSE q \in Undefined(t) :
                      \A u \in Undefined(t) :
                          u[1] < q[1] \/ (u[1] = q[1] /\ u[2] <= q[2])
         IN  [ok |-> TRUE,
              t  |-> set(add_row(t, n_gens(t)), p[1], p[2], len(t))]

\* Cosets.add_coset: whether a coset was created, and the table afterwards
add_coset(t) ==
    IF Undefined(t) = {}
    THEN [ok |-> FALSE, t |-> t]
    ELSE LET p == FirstUndefined(t)
         IN  [ok |-> TRUE,
              t  |-> set(add_row(t, n_gens(t)), p[1], p[2], len(t))]

----------------------------------------------------------------------------
(* class Row *)

\* a row whose window stops one letter short of the relator
Row_short(rel, c) ==
    [rel |-> rel, left |-> 0, right |-> Len(rel) - 1,
     left_coset |-> c, right_target |-> c]

\* Row.__init__
Row(rel, c) ==
    [rel |-> rel, left |-> 0, right |-> Len(rel),
     left_coset |-> c, right_target |-> c]

left_gen(row) == row.rel[row.left + 1]

right_gen(row) == row.rel[row.right]

\* the first while loop of learn
\* (the row of the next iteration is bound as a value, so that each
\* iteration is evaluated once)
RECURSIVE AdvanceLeft(_, _)
AdvanceLeft(row, t) ==
    IF row.left + 1 = row.right
    THEN row
    ELSE LET left_target == get(t, row.left_coset, left_gen(row))
         IN  IF left_target = None
             THEN row
             ELSE CHOOSE out \in
                     {AdvanceLeft(next, t) :
                         next \in {[row EXCEPT !.left = row.left + 1,
                                               !.left_coset = left_target]}} :
                     TRUE

\* the second while loop of learn
RECURSIVE AdvanceRight(_, _)
AdvanceRight(row, t) ==
    IF row.left + 1 = row.right
    THEN row
    ELSE LET right_coset == rget(t, right_gen(row), row.right_target)
         IN  IF right_coset = None
             THEN row
             ELSE CHOOSE out \in
                     {AdvanceRight(next, t) :
                         next \in {[row EXCEPT !.right = row.right - 1,
                                               !.right_target = right_coset]}} :
                     TRUE

\* Row.learn: the row and the table afterwards, and the value returned
learn(row, t) ==
    IF row.left + 1 = row.right
    THEN [learned |-> FALSE, row |-> row, t |-> t]
    ELSE LET scanned == AdvanceRight(AdvanceLeft(row, t), t)
         IN  IF scanned.left + 1 = scanned.right
             THEN [learned |-> TRUE, row |-> scanned,
                   t |-> set(t, scanned.left_coset, left_gen(scanned),
                             scanned.right_target)]
             ELSE [learned |-> FALSE, row |-> scanned, t |-> t]

----------------------------------------------------------------------------
(* The calls drawn in Init *)

Words(S, n) == UNION {[1..m -> S] : m \in 1..n}

\* the lists of non-empty words over S with at most n letters in all
RECURSIVE RelLists(_, _)
RelLists(S, n) ==
    {<<>>} \cup
    UNION {{<<w>> \o rest : rest \in RelLists(S, n - Len(w))} : w \in Words(S, n)}

Call(fn, g, s, r, c) ==
    [fn |-> fn, gens |-> g, subgens |-> s, rels |-> r, coeffs |-> c]

AB == <<"a", "b">>

SubLists == {<<>>, <<"a">>, <<"b">>, <<"a", "b">>}

\* solve over the alphabet ab, every small relator list, every subgroup
SmallSolveCalls ==
    {Call("solve", AB, s, r, <<>>) :
        s \in SubLists, r \in RelLists({"a", "b"}, MaxLetters)}

\* solve('ab', '', ('aa', 'bb', 'ab' * 3))
DihedralSix ==
    Call("solve", AB, <<>>,
         <<Repeat(<<"a">>, 2), Repeat(<<"b">>, 2), Repeat(AB, 3)>>, <<>>)

\* solve('ab', '', ()): two generators, no relators, no subgroup generators
NoRelators == Call("solve", AB, <<>>, <<>>, <<>>)

\* solve with a symbol z that is not in the alphabet
ForeignSolveCalls ==
    {Call("solve", AB, s, r, <<>>) :
        s \in {<<>>, <<"z">>, <<"a", "z">>}, r \in RelLists({"a", "z"}, 2)}

ABC == <<"a", "b", "c">>

Alphabets == {AB, ABC}

\* schlafli(['a', 'b'], ['a'], (5,))
DihedralFive == Call("schlafli", AB, <<"a">>, <<>>, <<5>>)

\* schlafli with zero, one or two coefficients, so that the length of the
\* symbol does or does not fit the alphabet
SchlafliCalls ==
    {Call("schlafli", g, s, <<>>, c) :
        g \in Alphabets, s \in {<<>>, <<"a">>, <<"a", "b">>, <<"z">>},
        c \in UNION {[1..m -> 2..MaxCoeff] : m \in 0..2}}

\* relators given to coxeter: a commuting pair, a pair written backwards,
\* a second pair, a word over three symbols and a word over one
CoxWords ==
    {Repeat(<<"a", "b">>, 2), Repeat(<<"b", "a">>, 3), Repeat(<<"b", "c">>, 3),
     Repeat(<<"a", "b", "c">>, 2), <<"a", "a">>}

CoxeterCalls ==
    {Call("coxeter", g, s, r, <<>>) :
        g \in Alphabets, s \in {<<>>, <<"a">>},
        r \in UNION {[1..m -> CoxWords] : m \in 0..MaxCoxRels}}

XYZ == <<"x", "y", "z">>

\* the sublists of g: subgroup generators in the order of the alphabet
RECURSIVE SubSeqs(_)
SubSeqs(g) ==
    IF g = <<>> THEN {<<>>}
    ELSE LET rest == SubSeqs(Tail(g))
         IN  rest \cup {<<Head(g)>> \o s : s \in rest}

\* the two calls of the docstring of coxeter
CoxeterDoc(H) ==
    Call("coxeter", XYZ, H,
         <<Repeat(<<"x", "y">>, 4), Repeat(<<"y", "z">>, 3)>>, <<>>)

SolveDoc(H) ==
    Call("solve", XYZ, H,
         <<Repeat(<<"x", "y">>, 2), Repeat(<<"y", "z">>, 3),
           Repeat(<<"x", "z">>, 2), Repeat(<<"x">>, 2), Repeat(<<"y">>, 2),
           Repeat(<<"z">>, 2)>>, <<>>)

DocPairs == {<<CoxeterDoc(H), SolveDoc(H)>> : H \in SubSeqs(XYZ)}

\* one relator for each consecutive pair of g: the k-th is the word
\* g[k] g[k + 1] written c[k] times
ConsecutivePairs(g, c) ==
    [k \in 1..Len(c) |->
        [j \in 1..(2 * c[k]) |-> IF j % 2 = 1 THEN g[k] ELSE g[k + 1]]]

\* a schlafli call whose symbol fits the alphabet, and the coxeter call over
\* the relators of the consecutive pairs
SchlafliPairsOver(g) ==
    {<<Call("schlafli", g, s, <<>>, c),
       Call("coxeter", g, s, ConsecutivePairs(g, c), <<>>)>> :
        s \in SubSeqs(g), c \in [1..(Len(g) - 1) -> 2..MaxCoeff]}

SchlafliPairs == SchlafliPairsOver(AB) \cup SchlafliPairsOver(XYZ)

Calls ==
    SmallSolveCalls \cup ForeignSolveCalls \cup {DihedralSix}
        \cup SchlafliCalls \cup CoxeterCalls

----------------------------------------------------------------------------
(* The state of one call *)

Table == [f |-> cosets, r |-> rcosets]

\* What the run has done so far.  A row of solve is identified by the coset
\* it was created for and the 1-based position of its relator in rels.
NoHistory ==
    [ids     |-> <<>>,   \* the identity of each pending row, parallel to rows
     start   |-> <<>>,   \* ids when the running pass began
     scanned |-> <<>>,   \* identities of the rows learn was called on in the
                         \* running pass, in the order of the calls
     m0      |-> 0,      \* pending rows when the loop of line 146 was entered
     passes  |-> 0,      \* passes begun since the loop was entered
     lastlen |-> 0,      \* len(rel) of the row of the last learn call
     moves   |-> 0,      \* window moves of the last learn call
     clash   |-> FALSE]  \* a set call has changed a defined entry

\* an entry of t, forward or reverse, that is defined and has another value
\* in u
Overwrites(t, u) ==
    \E c \in DOMAIN t.f : \E g \in DOMAIN t.f[c] :
        \/ t.f[c][g] # None /\ u.f[c][g] # t.f[c][g]
        \/ t.r[c][g] # None /\ u.r[c][g] # t.r[c][g]

\* the state in which the call c begins
Begin(c) ==
    /\ call = c
    /\ pc = c.fn
    /\ err = ""
    /\ gens = c.gens
    /\ subgens = c.subgens
    /\ rels = c.rels
    /\ irels = <<>>
    /\ isubgens = <<>>
    /\ cosets = <<>>
    /\ rcosets = <<>>
    /\ rows = <<>>
    /\ learned = FALSE
    /\ i = 0
    /\ todo = {}
    /\ sg = 0
    /\ hist = NoHistory

\* one call from C, and none after it
InitCalls(C) ==
    /\ \E c \in C : Begin(c)
    /\ later = <<>>
    /\ results = <<>>

\* the next of the later calls begins once the running one has returned
NextCall ==
    /\ pc = "done"
    /\ later # <<>>
    /\ results' = Append(results, [call |-> call, table |-> Table])
    /\ later' = Tail(later)
    /\ call' = Head(later)
    /\ pc' = Head(later).fn
    /\ err' = ""
    /\ gens' = Head(later).gens
    /\ subgens' = Head(later).subgens
    /\ rels' = Head(later).rels
    /\ irels' = <<>>
    /\ isubgens' = <<>>
    /\ cosets' = <<>>
    /\ rcosets' = <<>>
    /\ rows' = <<>>
    /\ learned' = FALSE
    /\ i' = 0
    /\ todo' = {}
    /\ sg' = 0
    /\ hist' = NoHistory

----------------------------------------------------------------------------
(* schlafli *)

\* zip(pairwise(gens), coeffs): the pairs (gens[k], gens[k + 1]), cut to the
\* shorter of the two
pairwise(g) == [k \in 1..(Len(g) - 1) |-> <<g[k], g[k + 1]>>]

Min(x, y) == IF x <= y THEN x ELSE y

\* every relator built from the first pair of generators
cox_rels_first_pair(g, coeffs) ==
    [k \in 1..Min(Len(g) - 1, Len(coeffs)) |-> Repeat(pairwise(g)[1], coeffs[k])]

cox_rels(g, coeffs) ==
    [k \in 1..Min(Len(g) - 1, Len(coeffs)) |-> Repeat(pairwise(g)[k], coeffs[k])]

\* the assertion of line 196 never fails
SchlafliAssertOff == TRUE

\* the assertion of line 196
SchlafliAssert == Len(gens) = Len(call.coeffs) + 1

\* line 196 fails
SchlafliRaise ==
    /\ pc = "schlafli"
    /\ ~SchlafliAssert
    /\ pc' = "error"
    /\ err' = "AssertionError"
    /\ UNCHANGED <<later, results, call, hist, gens, subgens, rels, irels, isubgens,
                   cosets, rcosets, rows, learned, i, todo, sg>>

\* lines 196-203: the call of coxeter
Schlafli ==
    /\ pc = "schlafli"
    /\ SchlafliAssert
    /\ rels' = cox_rels(gens, call.coeffs)
    /\ pc' = "coxeter"
    /\ UNCHANGED <<later, results, call, hist, err, gens, subgens, irels, isubgens,
                   cosets, rcosets, rows, learned, i, todo, sg>>

----------------------------------------------------------------------------
(* coxeter *)

inc_links(r) == {Range(r[k]) : k \in 1..Len(r)}

\* permutations(gens, r=2): the ordered pairs of two positions of gens
all_links(g) ==
    {{g[pq[1]], g[pq[2]]} :
        pq \in {x \in (1..Len(g)) \X (1..Len(g)) : x[1] # x[2]}}

\* every link counted as missing, given a relator or not
missing_links_all(g, r) == all_links(g)

missing_links(g, r) == all_links(g) \ inc_links(r)

\* the orders in which a set can be iterated: the order of a Python set of
\* strings or of frozensets of strings changes with the hash seed
Orders(S) == {s \in [1..Cardinality(S) -> S] : Range(s) = S}

\* the values line 179 can append: the missing links in any order, each
\* joined in any order of its two symbols and doubled
MissingRels(g, r) ==
    UNION {{w \in [1..Len(order) -> UNION {Orders(l) : l \in missing_links(g, r)}] :
                \A k \in 1..Len(order) : Range(w[k]) = order[k]} :
           order \in Orders(missing_links(g, r))}

\* lines 175-182: the call of solve
Coxeter ==
    /\ pc = "coxeter"
    /\ \E m \in MissingRels(gens, rels) :
          rels' = rels \o [k \in 1..Len(m) |-> Repeat(m[k], 2)]
                       \o [k \in 1..Len(gens) |-> Repeat(<<gens[k]>>, 2)]
    /\ pc' = "solve"
    /\ UNCHANGED <<later, results, call, hist, err, gens, subgens, irels, isubgens,
                   cosets, rcosets, rows, learned, i, todo, sg>>

----------------------------------------------------------------------------
(* solve *)

\* lines 135-140: the index mapping raises ValueError on a foreign symbol,
\* before Cosets(...) is reached
ValidSymbols ==
    /\ \A k \in 1..Len(rels) : \A j \in 1..Len(rels[k]) : HasIndex(gens, rels[k][j])
    /\ \A k \in 1..Len(subgens) : HasIndex(gens, subgens[k])

SolveRaise ==
    /\ pc = "solve"
    /\ ~ValidSymbols
    /\ pc' = "error"
    /\ err' = "ValueError"
    /\ UNCHANGED <<later, results, call, hist, gens, subgens, rels, irels, isubgens,
                   cosets, rcosets, rows, learned, i, todo, sg>>

SolveStart ==
    /\ pc = "solve"
    /\ ValidSymbols
    /\ irels' = [k \in 1..Len(rels) |->
                    [j \in 1..Len(rels[k]) |-> Index(gens, rels[k][j])]]
    /\ isubgens' = [k \in 1..Len(subgens) |-> Index(gens, subgens[k])]
    /\ LET t == NewCosets(Len(gens))
       IN  cosets' = t.f /\ rcosets' = t.r
    /\ rows' = [k \in 1..Len(rels) |-> Row(irels'[k], 0)]
    /\ sg' = 0
    /\ hist' = [hist EXCEPT !.ids = [k \in 1..Len(rels) |-> <<0, k>>]]
    /\ pc' = "subgens"
    /\ UNCHANGED <<later, results, call, err, gens, subgens, rels, learned, i, todo>>

\* lines 142-143, one iteration
SubgenStep ==
    /\ pc = "subgens"
    /\ sg < Len(isubgens)
    /\ LET t == set(Table, 0, isubgens[sg + 1], 0)
       IN  /\ cosets' = t.f /\ rcosets' = t.r
           /\ hist' = [hist EXCEPT !.clash = @ \/ Overwrites(Table, t)]
    /\ sg' = sg + 1
    /\ UNCHANGED <<later, results, call, pc, err, gens, subgens, rels, irels, isubgens,
                   rows, learned, i, todo>>

SubgenEnd ==
    /\ pc = "subgens"
    /\ sg = Len(isubgens)
    /\ pc' = "while"
    /\ UNCHANGED <<later, results, call, hist, err, gens, subgens, rels, irels, isubgens,
                   cosets, rcosets, rows, learned, i, todo, sg>>

\* line 145, rows not empty; lines 146-148: a pass begins
WhileEnter ==
    /\ pc = "while"
    /\ rows # <<>>
    /\ learned' = FALSE
    /\ i' = Len(rows) - 1
    /\ todo' = 0..(Len(rows) - 1)
    /\ hist' = [hist EXCEPT !.m0 = Len(rows), !.passes = 1,
                            !.start = hist.ids, !.scanned = <<>>]
    /\ pc' = "pass"
    /\ UNCHANGED <<later, results, call, err, gens, subgens, rels, irels, isubgens,
                   cosets, rcosets, rows, sg>>

\* line 145, rows empty; line 161
WhileExit ==
    /\ pc = "while"
    /\ rows = <<>>
    /\ pc' = "done"
    /\ UNCHANGED <<later, results, call, hist, err, gens, subgens, rels, irels, isubgens,
                   cosets, rcosets, rows, learned, i, todo, sg>>

\* del rows[p] left out: the list is as before
KeepRow(rs, p) == rs

\* del rows[0] in the place of del rows[p]
DelFirstRow(rs, p) == Tail(rs)

\* del rows[p], p 0-based
DelRow(rs, p) == [k \in 1..(Len(rs) - 1) |-> IF k <= p THEN rs[k] ELSE rs[k + 1]]

\* rows[p].learn(cosets) and what lines 149-151 do with its result
Scan(p) ==
    LET res == learn(rows[p + 1], Table)
    IN  /\ cosets' = res.t.f
        /\ rcosets' = res.t.r
        /\ learned' = (learned \/ res.learned)
        /\ rows' = IF res.learned
                   THEN DelRow(rows, p)
                   ELSE [rows EXCEPT ![p + 1] = res.row]
        /\ todo' = IF res.learned
                   THEN {IF q > p THEN q - 1 ELSE q : q \in todo \ {p}}
                   ELSE todo \ {p}

\* the history after rows[p].learn(cosets), but for the record of the call
\* itself
Scanned(p) ==
    LET res == learn(rows[p + 1], Table)
    IN  [hist EXCEPT !.ids = IF res.learned THEN DelRow(@, p) ELSE @,
                     !.clash = @ \/ Overwrites(Table, res.t)]

\* lines 148-151, one iteration of the for loop
LearnStep ==
    /\ pc = "pass"
    /\ i >= 0
    /\ Scan(i)
    /\ i' = i - 1
    /\ LET res == learn(rows[i + 1], Table)
       IN  hist' = [Scanned(i) EXCEPT
                       !.scanned = Append(@, hist.ids[i + 1]),
                       !.lastlen = Len(rows[i + 1].rel),
                       !.moves = (res.row.left - rows[i + 1].left)
                                   + (rows[i + 1].right - res.row.right)]
    /\ UNCHANGED <<later, results, call, pc, err, gens, subgens, rels, irels, isubgens, sg>>

\* the for loop of lines 148-151 with the pending rows taken in any order:
\* one iteration
LearnAny ==
    /\ pc = "pass"
    /\ i >= 0
    /\ \E p \in todo : Scan(p) /\ hist' = Scanned(p)
    /\ i' = i - 1
    /\ UNCHANGED <<later, results, call, pc, err, gens, subgens, rels, irels, isubgens, sg>>

\* lines 152-153 after a pass that learned: the next pass begins
PassAgain ==
    /\ pc = "pass"
    /\ i < 0
    /\ learned
    /\ learned' = FALSE
    /\ i' = Len(rows) - 1
    /\ todo' = 0..(Len(rows) - 1)
    /\ hist' = [hist EXCEPT !.passes = @ + 1,
                            !.start = hist.ids, !.scanned = <<>>]
    /\ UNCHANGED <<later, results, call, pc, err, gens, subgens, rels, irels, isubgens,
                   cosets, rcosets, rows, sg>>

\* lines 152-153 after a pass that learned nothing
PassBreak ==
    /\ pc = "pass"
    /\ i < 0
    /\ ~learned
    /\ pc' = "add"
    /\ UNCHANGED <<later, results, call, hist, err, gens, subgens, rels, irels, isubgens,
                   cosets, rcosets, rows, learned, i, todo, sg>>

\* lines 155-157: add_coset created coset number len(cosets); the
\* enumeration is cut once the table holds ceiling cosets
AddCosetBelow(ceiling) ==
    /\ pc = "add"
    /\ add_coset(Table).ok
    /\ len(Table) < ceiling
    /\ LET t == add_coset(Table).t
       IN  /\ cosets' = t.f /\ rcosets' = t.r
           /\ hist' = [hist EXCEPT
                           !.ids = @ \o [k \in 1..Len(irels) |-> <<len(Table), k>>],
                           !.clash = @ \/ Overwrites(Table, t)]
    /\ rows' = rows \o [k \in 1..Len(irels) |-> Row(irels[k], len(Table))]
    /\ pc' = "while"
    /\ UNCHANGED <<later, results, call, err, gens, subgens, rels, irels, isubgens,
                   learned, i, todo, sg>>

AddCoset == AddCosetBelow(MaxCosets)

\* lines 158-161: add_coset found every entry defined
Saturated ==
    /\ pc = "add"
    /\ ~add_coset(Table).ok
    /\ pc' = "done"
    /\ UNCHANGED <<later, results, call, hist, err, gens, subgens, rels, irels, isubgens,
                   cosets, rcosets, rows, learned, i, todo, sg>>

Next ==
    \/ SchlafliRaise
    \/ Schlafli
    \/ Coxeter
    \/ SolveRaise
    \/ SolveStart
    \/ SubgenStep
    \/ SubgenEnd
    \/ WhileEnter
    \/ WhileExit
    \/ LearnStep
    \/ PassAgain
    \/ PassBreak
    \/ AddCoset
    \/ Saturated

Init == InitCalls(Calls)

Spec == Init /\ [][Next]_vars

\* The calls the tests of the specification name, with one call for each
\* way a call can end
NamedCalls ==
    {DihedralFive, DihedralSix, NoRelators,
     Call("schlafli", AB, <<"a">>, <<>>, <<5, 3>>),
     Call("solve", AB, <<"z">>, <<Repeat(<<"a">>, 2)>>, <<>>)}

NamedInit == InitCalls(NamedCalls)

\* solve is one thread of straight-line code: a step that can be taken is
\* taken
NamedSpec == NamedInit /\ [][Next]_vars /\ WF_vars(Next)

\* solve with the scan of a pass taken in any order of the pending rows
NextPerm ==
    \/ SchlafliRaise
    \/ Schlafli
    \/ Coxeter
    \/ SolveRaise
    \/ SolveStart
    \/ SubgenStep
    \/ SubgenEnd
    \/ WhileEnter
    \/ WhileExit
    \/ LearnAny
    \/ PassAgain
    \/ PassBreak
    \/ AddCoset
    \/ Saturated

PermSpec == NamedInit /\ [][NextPerm]_vars

\* The schlafli calls with two or three generators, coefficients from 2 on
\* and any sublist of subgroup generators, under the higher ceiling
CoxeterGroupCalls ==
    UNION {{Call("schlafli", g, s, <<>>, c) :
                s \in SubSeqs(g), c \in [1..(Len(g) - 1) -> 2..MaxCoeff]} :
           g \in Alphabets}

CoxInit == InitCalls(CoxeterGroupCalls)

\* The group of the symbol (p) is finite, and that of (p, q) is finite when
\* (p - 2)(q - 2) < 4.  In an infinite one the subgroup of a proper subset of
\* the generators has infinitely many cosets, so its runs return with one
\* coset or never: they are cut at the lower ceiling.
FiniteGroup ==
    Len(call.coeffs) < 2 \/ (call.coeffs[1] - 2) * (call.coeffs[2] - 2) < 4

CoxCeiling == IF FiniteGroup THEN MaxCoxeterCosets ELSE MaxCosets

NextCox ==
    \/ Schlafli
    \/ Coxeter
    \/ SolveStart
    \/ SubgenStep
    \/ SubgenEnd
    \/ WhileEnter
    \/ LearnStep
    \/ PassAgain
    \/ PassBreak
    \/ AddCosetBelow(CoxCeiling)
    \/ Saturated

CoxSpec == CoxInit /\ [][NextCox]_vars

\* Two calls one after the other, the second begun when the first has
\* returned
Pairs == DocPairs \cup SchlafliPairs

PairInit ==
    /\ \E p \in Pairs : Begin(p[1]) /\ later = <<p[2]>>
    /\ results = <<>>

NextPair ==
    \/ Schlafli
    \/ Coxeter
    \/ SolveStart
    \/ SubgenStep
    \/ SubgenEnd
    \/ WhileEnter
    \/ LearnStep
    \/ PassAgain
    \/ PassBreak
    \/ AddCoset
    \/ Saturated
    \/ NextCall

PairSpec == PairInit /\ [][NextPair]_vars

----------------------------------------------------------------------------
(* Properties *)

Returned == pc = "done"

Cosets == DOMAIN cosets

Gens == 0..(Len(gens) - 1)

\* the coset reached from c along the word w through forward entries, None
\* once an entry on the way is undefined
RECURSIVE Follow(_, _)
Follow(c, w) ==
    IF w = <<>> THEN c
    ELSE IF cosets[c][Head(w)] = None THEN None
    ELSE Follow(cosets[c][Head(w)], Tail(w))

\* C1: in every state of a solve run, forward[c][g] = t defined implies
\* reverse[t][g] = c.
C1_TableSymmetry ==
    \A c \in Cosets : \A g \in Gens :
        cosets[c][g] # None => rcosets[cosets[c][g]][g] = c

\* C2: in the table solve returns, following any relator from any coset
\* passes through defined entries only and ends at that coset.
C2_RelatorsHold ==
    Returned =>
        \A c \in Cosets : \A k \in 1..Len(irels) : Follow(c, irels[k]) = c

\* C3: the table solve returns is saturated, whatever the number of
\* relators: every forward entry is defined.
C3_ReturnedSaturated ==
    Returned => \A c \in Cosets : \A g \in Gens : cosets[c][g] # None

\* C4: schlafli(['a', 'b'], ['a'], (5,)) terminates and returns a table of
\* exactly 5 cosets.
C4_DihedralFive ==
    (call = DihedralFive) ~> (Returned /\ len(Table) = 5)

C4_Witness == call = DihedralFive /\ Returned /\ len(Table) = 5

\* C5: solve over {a, b} with relators aa, bb, ababab and no subgroup
\* generator terminates and returns a table of exactly 6 cosets.
C5_DihedralSix ==
    (call = DihedralSix) ~> (Returned /\ len(Table) = 6)

C5_Witness == call = DihedralSix /\ Returned /\ len(Table) = 6

\* C6: with two generators, no relators and no subgroup generators the
\* enumeration creates cosets up to a ceiling and ends in TooManyCosets; it
\* never returns a table.
C6_NoRelatorsNeverReturns ==
    call = NoRelators => ~Returned

\* C7: a call with a symbol foreign to the alphabet in a relator or in the
\* subgroup generators, or a schlafli call whose symbol has not one
\* coefficient less than there are generators, ends in an error: no table is
\* ever constructed, no set or add_coset step is taken, nothing is returned.
ForeignSymbol ==
    \/ \E k \in 1..Len(call.rels) :
          \E j \in 1..Len(call.rels[k]) : call.rels[k][j] \notin Range(call.gens)
    \/ \E k \in 1..Len(call.subgens) : call.subgens[k] \notin Range(call.gens)

LengthMismatch ==
    call.fn = "schlafli" /\ Len(call.gens) # Len(call.coeffs) + 1

InvalidCall == ForeignSymbol \/ LengthMismatch

C7_InvalidFailsFast ==
    InvalidCall =>
        /\ pc \in {"schlafli", "coxeter", "solve", "error"}
        /\ pc = "error" \/ ENABLED Next
        /\ pc = "error" => err \in {"ValueError", "AssertionError"}
        /\ cosets = <<>> /\ rcosets = <<>> /\ rows = <<>>

C7_Witness == InvalidCall /\ pc = "error" /\ cosets = <<>>

\* C8: with the pending rows of each pass scanned in any order, the two
\* dihedral calls return the coset counts of the reverse-index scan, 5 and 6.
C8_PermutedScanCount ==
    Returned =>
        /\ call = DihedralFive => len(Table) = 5
        /\ call = DihedralSix => len(Table) = 6

\* a pass over the saturated six-coset table in which a row other than the
\* last pending one was scanned first
C8_Witness ==
    /\ call = DihedralSix /\ pc = "pass"
    /\ len(Table) = 6 /\ Undefined(Table) = {}
    /\ todo # 0..i

----------------------------------------------------------------------------
(* Representative words: the breadth-first traversal of the returned table *)

\* the edges of coset c from generator g on: each coset first visited is
\* queued and gets the word of c with the generator appended
RECURSIVE Visit(_, _, _, _)
Visit(c, g, queue, w) ==
    IF g >= Len(gens) THEN [queue |-> queue, w |-> w]
    ELSE LET t == cosets[c][g]
         IN  IF t = None \/ t \in DOMAIN w
             THEN Visit(c, g + 1, queue, w)
             ELSE Visit(c, g + 1, Append(queue, t), w @@ (t :> Append(w[c], g)))

RECURSIVE Bfs(_, _)
Bfs(queue, w) ==
    IF queue = <<>> THEN w
    ELSE LET v == Visit(Head(queue), 0, Tail(queue), w)
         IN  Bfs(v.queue, v.w)

\* coset -> word, for the cosets the traversal from coset 0 visits
words == Bfs(<<0>>, (0 :> <<>>))

\* C9: every coset of the returned table is visited by the breadth-first
\* traversal from coset 0, replaying its word from coset 0 through forward
\* entries lands on it, and the word of coset 0 is empty.
C9_WordsRoundTrip ==
    Returned =>
        /\ words[0] = <<>>
        /\ \A c \in Cosets : c \in DOMAIN words /\ Follow(0, words[c]) = c

\* C10: coxeter forwards the given relators, then exactly one commuting
\* relator ghgh for every pair {g, h} of distinct generators that is the
\* symbol set of no given relator, then gg for every generator; nothing else.
C10_CoxeterForwards ==
    (call.fn = "coxeter" /\ pc # "coxeter") =>
        LET given == call.rels
            n     == Len(given)
            m     == Len(rels) - n - Len(gens)
            Free  == {{g, h} : g, h \in Range(gens)}
                        \ ({{g} : g \in Range(gens)}
                                \cup {Range(given[k]) : k \in 1..n})
        IN  /\ m >= 0
            /\ \A k \in 1..n : rels[k] = given[k]
            /\ \A k \in 1..m :
                  \E g, h \in Range(gens) :
                      g # h /\ {g, h} \in Free /\ rels[n + k] = <<g, h, g, h>>
            /\ \A link \in Free :
                  Cardinality({k \in 1..m : Range(rels[n + k]) = link}) = 1
            /\ \A k \in 1..Len(gens) : rels[n + m + k] = <<gens[k], gens[k]>>

C10_Witness ==
    /\ call.fn = "coxeter" /\ pc = "solve" /\ gens = ABC
    /\ Repeat(<<"b", "a">>, 3) \in Range(call.rels)
    /\ Len(rels) = Len(call.rels) + 2 + Len(gens)

\* C11: for every list H of subgroup generators from xyz, the two calls of
\* the docstring of coxeter return tables with the same number of cosets.
C11_DocstringEquivalent ==
    \A H \in SubSeqs(XYZ) :
        (/\ Returned /\ call = SolveDoc(H)
         /\ results # <<>> /\ results[1].call = CoxeterDoc(H))
            => len(Table) = len(results[1].table)

\* C12: a schlafli call whose symbol fits the alphabet calls coxeter on its
\* own gens and subgens and on one relator for each consecutive pair of
\* generators, the two-letter word written as many times as the coefficient
\* says, and the table it returns is the table that coxeter call returns.
C12_SchlafliIsCoxeter ==
    /\ (call.fn = "schlafli" /\ pc = "coxeter") =>
            /\ rels = ConsecutivePairs(call.gens, call.coeffs)
            /\ gens = call.gens /\ subgens = call.subgens
    /\ (Returned /\ results # <<>> /\ results[1].call.fn = "schlafli") =>
            LET first == results[1].call
            IN  /\ call = Call("coxeter", first.gens, first.subgens,
                               ConsecutivePairs(first.gens, first.coeffs), <<>>)
                /\ Table = results[1].table

\* schlafli('xyz', 'xy', (4, 3)) and coxeter('xyz', 'xy', ('xy' * 4, 'yz' * 3))
\* have both returned
C12_Witness ==
    /\ Returned /\ results # <<>>
    /\ results[1].call = Call("schlafli", XYZ, <<"x", "y">>, <<>>, <<4, 3>>)
    /\ call = CoxeterDoc(<<"x", "y">>)
    /\ len(Table) = 6

\* C13: a step of add_coset on a table of k cosets.  With an undefined
\* forward entry, (c, g) being the first in row-major order: the table has
\* k + 1 cosets, forward[c][g] = k, reverse[k][g] = c, the rest of row k is
\* undefined, every other entry is as before, and solve goes on as for true.
\* With none: the table is unchanged and solve returns, as for false.
C13_AddCosetContract ==
    [][pc = "add" =>
        LET k == Cardinality(DOMAIN cosets)
            U == {p \in (0..(k - 1)) \X Gens : cosets[p[1]][p[2]] = None}
        IN  IF U # {}
            THEN \E p \in U :
                    /\ \A q \in U : p[1] < q[1] \/ (p[1] = q[1] /\ p[2] <= q[2])
                    /\ DOMAIN cosets' = 0..k /\ DOMAIN rcosets' = 0..k
                    /\ cosets'[p[1]][p[2]] = k
                    /\ rcosets'[k][p[2]] = p[1]
                    /\ \A g \in Gens :
                          /\ cosets'[k][g] = None
                          /\ g # p[2] => rcosets'[k][g] = None
                    /\ \A c \in 0..(k - 1) : \A g \in Gens :
                          /\ <<c, g>> # p => cosets'[c][g] = cosets[c][g]
                          /\ rcosets'[c][g] = rcosets[c][g]
                    /\ pc' = "while"
            ELSE cosets' = cosets /\ rcosets' = rcosets /\ pc' = "done"
    ]_vars

\* the newest coset has just been created from an entry that is not the
\* first of the table
C13_Witness ==
    /\ pc = "while" /\ len(Table) >= 3
    /\ \E c \in Cosets : \E g \in Gens :
          /\ c > 0 /\ g > 0
          /\ cosets[c][g] = len(Table) - 1
          /\ rcosets[len(Table) - 1][g] = c
          /\ \A h \in Gens : cosets[len(Table) - 1][h] = None

\* C14: in the run of schlafli(['a', 'b'], ['a'], (5,)) the k-th call of
\* add_coset, made on a table of k cosets, creates coset k from the entry
\* (0, b), (1, a), (2, b), (3, a) for k = 1, 2, 3, 4, and the fifth call
\* creates nothing and solve returns.
C14_DihedralFiveCreations ==
    [][(call = DihedralFive /\ pc = "add") =>
        LET k    == Cardinality(DOMAIN cosets)
            from == <<<<0, 1>>, <<1, 0>>, <<2, 1>>, <<3, 0>>>>
        IN  /\ k \in 1..5
            /\ k < 5 =>
                  /\ DOMAIN cosets' = 0..k
                  /\ cosets[from[k][1]][from[k][2]] = None
                  /\ cosets'[from[k][1]][from[k][2]] = k
                  /\ \A c \in 0..(k - 1) : \A g \in Gens :
                        <<c, g>> # from[k] => cosets'[c][g] = cosets[c][g]
                  /\ pc' = "while"
            /\ k = 5 => cosets' = cosets /\ rcosets' = rcosets /\ pc' = "done"
    ]_vars

\* the run has returned with the four cosets created along the chain
C14_Witness ==
    /\ call = DihedralFive /\ Returned
    /\ rcosets[1][1] = 0 /\ rcosets[2][0] = 1
    /\ rcosets[3][1] = 2 /\ rcosets[4][0] = 3

\* C15: every pending row, created for coset c over relator rel, has
\* 0 <= left < right <= len(rel); following rel[0..left) from c through the
\* forward entries of the current table reaches left_coset, and following
\* rel[right..) from right_target reaches c.
C15_RowAnchors ==
    \A k \in 1..Len(rows) :
        LET row == rows[k]
            c   == hist.ids[k][1]
        IN  /\ 0 <= row.left /\ row.left < row.right
            /\ row.right <= Len(row.rel)
            /\ Follow(c, SubSeq(row.rel, 1, row.left)) = row.left_coset
            /\ Follow(row.right_target,
                      SubSeq(row.rel, row.right + 1, Len(row.rel))) = c

\* C16: a row whose window is a single step (left + 1 = right) has been
\* written and removed, whatever the length of its relator: when a pass
\* ends, no pending row has left + 1 = right.
C16_CollapsedRowsConsumed ==
    (pc = "pass" /\ i < 0) =>
        \A k \in 1..Len(rows) : rows[k].left + 1 # rows[k].right

\* C17: once the subgroup generators are initialised, forward[0][g] = 0 and
\* reverse[0][g] = 0 for every subgroup generator g, in every later state
\* and in the returned table.
C17_BaseCosetFixed ==
    pc \in {"while", "pass", "add", "done"} =>
        \A k \in 1..Len(isubgens) :
            cosets[0][isubgens[k]] = 0 /\ rcosets[0][isubgens[k]] = 0

\* C18: the loop of passes between two add_coset calls terminates: a learn
\* call moves the window at most len(rel) - 1 times, every pass but the last
\* removes a pending row and none is added, so with m rows pending when the
\* loop is entered there are at most m + 1 passes.
C18_PassesBounded ==
    pc = "pass" =>
        /\ hist.moves <= hist.lastlen - 1 \/ hist.lastlen = 0
        /\ hist.passes <= hist.m0 + 1
        /\ Len(rows) <= hist.m0 - (hist.passes - 1)
        /\ Len(rows) <= Len(hist.start)
        /\ (i < 0 /\ learned) => Len(rows) < Len(hist.start)

\* a third pass ends, rows having been removed in each pass before it
C18_Witness ==
    /\ pc = "pass" /\ i < 0
    /\ hist.passes >= 3
    /\ Len(rows) <= hist.m0 - 2

\* C19: in a pass, the rows pending when it starts get one learn call each,
\* the row created last first, whatever rows the pass deletes: the calls made
\* so far are the end of the starting list read backwards, the starting list
\* is in creation order, and the pass ends when it has been read through.
C19_ScanReverseOnce ==
    pc = "pass" =>
        LET n == Len(hist.start)
        IN  /\ Len(hist.scanned) <= n
            /\ \A j \in 1..Len(hist.scanned) :
                  hist.scanned[j] = hist.start[n + 1 - j]
            /\ \A a, b \in 1..n :
                  a < b => \/ hist.start[a][1] < hist.start[b][1]
                           \/ /\ hist.start[a][1] = hist.start[b][1]
                              /\ hist.start[a][2] < hist.start[b][2]
            /\ i < 0 <=> Len(hist.scanned) = n

\* a pass has ended in which a row was deleted while older rows were still
\* to be scanned
C19_Witness ==
    /\ pc = "pass" /\ i < 0
    /\ Len(hist.start) >= 3
    /\ Len(rows) >= 1 /\ Len(rows) < Len(hist.start)
    /\ hist.ids[Len(rows)] # hist.start[Len(rows)]

\* C20: in a run of solve on a presentation built by schlafli with 2 or 3
\* generators, coefficients from 2 to 5 and any subgroup generators, that
\* returns, no set call has changed a defined forward or reverse entry to
\* another value.
C20_WriteOnce ==
    (/\ Returned /\ call.fn = "schlafli"
     /\ Len(call.gens) \in {2, 3}
     /\ \A k \in 1..Len(call.coeffs) : call.coeffs[k] \in 2..MaxCoeff)
        => ~hist.clash

\* schlafli('abc', '', (3, 5)) has returned its 120 cosets
C20_Witness ==
    /\ Returned /\ call = Call("schlafli", ABC, <<>>, <<>>, <<3, 5>>)
    /\ len(Table) = 120

====
